---- MODULE Spec2Model ----
(***************************************************************************)
(* Model of FossilAnalyzer (src/fossil_analyzer.py): the analysis history  *)
(* of one analyzer instance, the three public operations analyze_image,    *)
(* batch_analyze and export_results, and the feature extractors and        *)
(* threshold classifiers they call.                                        *)
(*                                                                         *)
(* Python values are represented as follows.                               *)
(*   str            a TLA+ string                                          *)
(*   int            a TLA+ integer                                         *)
(*   float          [neg, mant, exp], an IEEE 754 float64: every float     *)
(*                  operation is computed exactly and rounded to nearest,  *)
(*                  in the order numpy performs the operations             *)
(*   bool           [type |-> "bool", value |-> BOOLEAN]                   *)
(*   numpy.bool_    [type |-> "numpy.bool_", value |-> BOOLEAN]            *)
(*   dict           a record; list: a sequence                             *)
(* A file name is a sequence of one-character strings, so that the suffix  *)
(* and its lower-casing are computed rather than assumed.                  *)
(***************************************************************************)
EXTENDS Integers, Sequences, FiniteSets, TLC

VARIABLES
    analysis_history,   \* self.analysis_history
    clock,              \* the readings of datetime.now() taken so far
    out_file,           \* content of the file at the export destination path
    op,                 \* the operation that ran last
    arg,                \* its argument
    ret,                \* the value it returned
    raised              \* the exception it propagated to the caller, or "none"

vars == <<analysis_history, clock, out_file, op, arg, ret, raised>>

(***************************************************************************)
(* Bounds of the model.                                                    *)
(***************************************************************************)
MaxHistory == 3     \* successful analyses recorded by one analyzer instance
MaxPixels == 3      \* pixels of the buffers the classifiers are applied to

(***************************************************************************)
(* Sequence helpers.                                                       *)
(***************************************************************************)
RECURSIVE SumSeq(_)
SumSeq(s) == IF s = <<>> THEN 0 ELSE Head(s) + SumSeq(Tail(s))

RECURSIVE Concat(_)
Concat(ss) == IF ss = <<>> THEN <<>> ELSE Head(ss) \o Concat(Tail(ss))

(***************************************************************************)
(* Natural numbers of any size. TLC's integers have 32 bits, a float64     *)
(* has a significand of 53: a natural number is the sequence of its limbs  *)
(* in base 2^15, lowest limb first, with no zero limb at the top.          *)
(***************************************************************************)
Base == 2^15
LimbBits == 15

Limb(a, i) == IF i <= Len(a) THEN a[i] ELSE 0

RECURSIVE Trim(_)
Trim(a) ==
    IF a = <<>> THEN <<>>
    ELSE IF a[Len(a)] = 0 THEN Trim(SubSeq(a, 1, Len(a) - 1))
    ELSE a

RECURSIVE BigFromInt(_)
BigFromInt(n) == IF n = 0 THEN <<>> ELSE <<n % Base>> \o BigFromInt(n \div Base)

RECURSIVE AddFrom(_, _, _, _)
AddFrom(a, b, i, carry) ==
    IF i > Len(a) /\ i > Len(b)
    THEN IF carry = 0 THEN <<>> ELSE <<carry>>
    ELSE <<(Limb(a, i) + Limb(b, i) + carry) % Base>>
         \o AddFrom(a, b, i + 1, (Limb(a, i) + Limb(b, i) + carry) \div Base)

BigAdd(a, b) == AddFrom(a, b, 1, 0)

\* a - b for a >= b
RECURSIVE SubFrom(_, _, _, _)
SubFrom(a, b, i, borrow) ==
    IF i > Len(a) THEN <<>>
    ELSE <<(a[i] - Limb(b, i) - borrow) % Base>>
         \o SubFrom(a, b, i + 1, IF a[i] - Limb(b, i) - borrow < 0 THEN 1 ELSE 0)

BigSub(a, b) == Trim(SubFrom(a, b, 1, 0))

\* -1, 0 or 1 as a < b, a = b or a > b
RECURSIVE CmpFrom(_, _, _)
CmpFrom(a, b, i) ==
    IF i = 0 THEN 0
    ELSE IF a[i] < b[i] THEN -1
    ELSE IF a[i] > b[i] THEN 1
    ELSE CmpFrom(a, b, i - 1)

BigCmp(a, b) ==
    IF Len(a) < Len(b) THEN -1
    ELSE IF Len(a) > Len(b) THEN 1
    ELSE CmpFrom(a, b, Len(a))

\* a * k for 0 <= k < 2^15
RECURSIVE MulSmallFrom(_, _, _, _)
MulSmallFrom(a, k, i, carry) ==
    IF i > Len(a)
    THEN IF carry = 0 THEN <<>> ELSE <<carry>>
    ELSE <<(a[i] * k + carry) % Base>>
         \o MulSmallFrom(a, k, i + 1, (a[i] * k + carry) \div Base)

BigMulSmall(a, k) == IF k = 0 THEN <<>> ELSE MulSmallFrom(a, k, 1, 0)

\* a * 2^(15 * limbs)
ShiftLimbs(a, limbs) ==
    IF a = <<>> THEN <<>> ELSE [i \in 1..limbs |-> 0] \o a

RECURSIVE MulFrom(_, _, _)
MulFrom(a, b, i) ==
    IF i > Len(b) THEN <<>>
    ELSE BigAdd(ShiftLimbs(BigMulSmall(a, b[i]), i - 1), MulFrom(a, b, i + 1))

BigMul(a, b) == MulFrom(a, b, 1)

\* floor(a / k) and a mod k for 0 < k < 2^15, from the top limb down: q
\* holds the limbs of the quotient above limb i, rem the remainder so far
RECURSIVE DivSmallFrom(_, _, _, _, _)
DivSmallFrom(a, k, i, rem, q) ==
    IF i = 0 THEN [q |-> Trim(q), r |-> rem]
    ELSE DivSmallFrom(a, k, i - 1, (rem * Base + a[i]) % k,
                      <<(rem * Base + a[i]) \div k>> \o q)

BigDivSmall(a, k) == DivSmallFrom(a, k, Len(a), 0, <<>>)

\* a * 2^bits
BigShl(a, bits) ==
    ShiftLimbs(BigMulSmall(a, 2^(bits % LimbBits)), bits \div LimbBits)

\* floor(a / 2^bits)
BigShr(a, bits) ==
    IF bits \div LimbBits >= Len(a) THEN <<>>
    ELSE BigDivSmall(SubSeq(a, bits \div LimbBits + 1, Len(a)),
                     2^(bits % LimbBits)).q

RECURSIVE IntBitLen(_)
IntBitLen(n) == IF n = 0 THEN 0 ELSE 1 + IntBitLen(n \div 2)

\* The number of bits of a
BigBitLen(a) ==
    IF a = <<>> THEN 0 ELSE LimbBits * (Len(a) - 1) + IntBitLen(a[Len(a)])

BigIsOdd(a) == a # <<>> /\ a[1] % 2 = 1

\* root with its bits from number bit down to number low chosen so that
\* root * root <= a still holds; next is root with the bit set
RECURSIVE SqrtBits(_, _, _, _)
SqrtBit(a, root, bit, low, next) ==
    IF BigCmp(BigMul(next, next), a) <= 0
    THEN SqrtBits(a, next, bit - 1, low)
    ELSE SqrtBits(a, root, bit - 1, low)

SqrtBits(a, root, bit, low) ==
    IF bit < low THEN root
    ELSE SqrtBit(a, root, bit, low, BigAdd(root, BigShl(<<1>>, bit)))

\* The limbs of floor(sqrt(a)) from number limb up, the lower ones zero
RECURSIVE SqrtLimbs(_, _)
SqrtLimbs(a, limb) ==
    IF 2 * limb > Len(a) + 1 THEN <<>>
    ELSE SqrtBits(a, SqrtLimbs(a, limb + 1),
                  LimbBits * limb - 1, LimbBits * (limb - 1))

\* floor(sqrt(a)), limb by limb from the top
BigSqrt(a) == SqrtLimbs(a, 1)

(***************************************************************************)
(* float64. A float is [neg, mant, exp], the number mant * 2^exp, negated  *)
(* if neg; mant is a natural number of exactly 53 bits, or zero. Every     *)
(* operation rounds its exact result to the nearest float, ties to the     *)
(* even significand, as IEEE 754 does. Infinities, nan, subnormal numbers  *)
(* and the sign of zero do not occur in the computations modelled.         *)
(***************************************************************************)
Precision == 53

FZero == [neg |-> FALSE, mant |-> <<>>, exp |-> 0]

\* The float r * 2^e for r of 53 bits, or of 54 after a carry
FCarry(neg, r, e) ==
    IF BigBitLen(r) > Precision
    THEN [neg |-> neg, mant |-> BigShr(r, 1), exp |-> e + 1]
    ELSE [neg |-> neg, mant |-> r, exp |-> e]

\* The float nearest to a number between q * 2^e and (q + 1) * 2^e, q of
\* 53 bits: half is -1, 0 or 1 as the number is below, at or above the
\* middle of the two
FNearest(neg, q, e, half) ==
    IF half > 0 \/ (half = 0 /\ BigIsOdd(q))
    THEN FCarry(neg, BigAdd(q, <<1>>), e)
    ELSE [neg |-> neg, mant |-> q, exp |-> e]

\* The float nearest to m * 2^e for m of more than 53 bits: q is m without
\* its cut lowest bits
FCut(neg, m, e, cut, q) ==
    FNearest(neg, q, e + cut,
             BigCmp(BigSub(m, BigShl(q, cut)), BigShl(<<1>>, cut - 1)))

\* The float nearest to m * 2^e for m of len bits
FRoundBits(neg, m, e, len) ==
    IF len = 0 THEN FZero
    ELSE IF len <= Precision
    THEN [neg |-> neg, mant |-> BigShl(m, Precision - len),
          exp |-> e - (Precision - len)]
    ELSE FCut(neg, m, e, len - Precision, BigShr(m, len - Precision))

\* The float nearest to m * 2^e (negated if neg)
FRound(neg, m, e) == FRoundBits(neg, m, e, BigBitLen(m))

\* The float nearest to a number just above m * 2^e if sticky, to m * 2^e
\* if not; m has at least 55 bits
FRoundSticky(neg, m, e, sticky) ==
    FRound(neg, BigAdd(BigShl(m, 1), IF sticky THEN <<1>> ELSE <<>>), e - 1)

\* float(n) for an integer 0 <= n < 2^31
FFromInt(n) == FRound(FALSE, BigFromInt(n), 0)

FNeg(x) == IF x.mant = <<>> THEN x ELSE [x EXCEPT !.neg = ~x.neg]
FAbs(x) == [x EXCEPT !.neg = FALSE]

\* The float nearest to the sum of a * 2^e (negated if aneg) and b * 2^e
\* (negated if bneg)
FAddAligned(aneg, a, bneg, b, e) ==
    FRound(IF aneg = bneg \/ BigCmp(a, b) >= 0 THEN aneg ELSE bneg,
           IF aneg = bneg THEN BigAdd(a, b)
           ELSE IF BigCmp(a, b) >= 0 THEN BigSub(a, b)
           ELSE BigSub(b, a),
           e)

\* x + y for x and y not zero, e being the lower of their exponents
FAddAt(x, y, e) ==
    FAddAligned(x.neg, BigShl(x.mant, x.exp - e),
                y.neg, BigShl(y.mant, y.exp - e), e)

\* x + y
FAdd(x, y) ==
    IF x.mant = <<>> THEN y
    ELSE IF y.mant = <<>> THEN x
    ELSE FAddAt(x, y, IF x.exp < y.exp THEN x.exp ELSE y.exp)

FSub(x, y) == FAdd(x, FNeg(y))

FMul(x, y) == FRound(x.neg # y.neg, BigMul(x.mant, y.mant), x.exp + y.exp)

\* The float nearest to (d.q + d.r / n) * 2^e, d.r being a remainder
FQuotient(neg, d, e) == FRoundSticky(neg, d.q, e, d.r # 0)

\* x / n for an integer 0 < n < 2^15
FDivInt(x, n) ==
    IF x.mant = <<>> THEN FZero
    ELSE FQuotient(x.neg, BigDivSmall(BigShl(x.mant, 60), n), x.exp - 60)

\* The float nearest to sqrt(m) * 2^e, root being floor(sqrt(m))
FRootRound(m, e, root) ==
    FRoundSticky(FALSE, root, e, BigMul(root, root) # m)

\* The float nearest to sqrt(m * 2^e) for an even e
FRoot(m, e) == FRootRound(m, e \div 2, BigSqrt(m))

\* sqrt(x) for x >= 0
FSqrt(x) ==
    IF x.mant = <<>> THEN FZero
    ELSE FRoot(BigShl(x.mant, 58 + (x.exp % 2)), x.exp - (58 + (x.exp % 2)))

FIsPositive(x) == x.mant # <<>> /\ ~x.neg

\* x > y
FGreater(x, y) == FIsPositive(FSub(x, y))

\* The float a literal n/d of the source denotes, for 0 <= n < 2^31 and
\* 0 < d < 2^15
Float(n, d) == FDivInt(FFromInt(n), d)

\* f < k and f > k for a float f and an integer 0 <= k < 2^31
FloatLess(f, k) == FGreater(FFromInt(k), f)
FloatGreater(f, k) == FGreater(f, FFromInt(k))

(***************************************************************************)
(* numpy reductions, in float64 and in numpy's order of operations.        *)
(***************************************************************************)
\* acc + xs[i] + xs[i + 1] + ..., added one by one
RECURSIVE SumFrom(_, _, _)
SumFrom(xs, i, acc) ==
    IF i > Len(xs) THEN acc ELSE SumFrom(xs, i + 1, FAdd(acc, xs[i]))

\* The sum numpy computes when it adds the elements one by one
SequentialSum(xs) == SumFrom(xs, 1, FZero)

\* acc + xs[i] + xs[i + 8] + ... up to index last
RECURSIVE LaneFrom(_, _, _, _)
LaneFrom(xs, i, last, acc) ==
    IF i > last THEN acc ELSE LaneFrom(xs, i + 8, last, FAdd(acc, xs[i]))

\* The 8 accumulators of a pairwise sum over xs[1..last], last a multiple
\* of 8
Lanes(xs, last) == [j \in 1..8 |-> LaneFrom(xs, j + 8, last, xs[j])]

\* The accumulators r[i..j] added in pairs:
\* ((r[1] + r[2]) + (r[3] + r[4])) + ((r[5] + r[6]) + (r[7] + r[8]))
RECURSIVE AddPairs(_, _, _)
AddPairs(r, i, j) ==
    IF i = j THEN r[i]
    ELSE FAdd(AddPairs(r, i, (i + j) \div 2),
              AddPairs(r, (i + j) \div 2 + 1, j))

AddLanes(r) == AddPairs(r, 1, 8)

\* The sum numpy computes over a contiguous array (pairwise summation):
\* fewer than 8 elements are added one by one; up to 128 in 8 accumulators
\* that are then added in pairs, the elements left over added one by one;
\* more by halving
RECURSIVE PairwiseSum(_)
PairwiseHalves(xs, half) ==
    FAdd(PairwiseSum(SubSeq(xs, 1, half)),
         PairwiseSum(SubSeq(xs, half + 1, Len(xs))))

PairwiseBlock(xs, last) == SumFrom(xs, last + 1, AddLanes(Lanes(xs, last)))

PairwiseSum(xs) ==
    IF Len(xs) < 8 THEN SequentialSum(xs)
    ELSE IF Len(xs) <= 128 THEN PairwiseBlock(xs, Len(xs) - (Len(xs) % 8))
    ELSE PairwiseHalves(xs, (Len(xs) \div 2) - ((Len(xs) \div 2) % 8))

\* The 8-bit samples s as floats
Floats(s) == [i \in 1..Len(s) |-> FFromInt(s[i])]

Square(x) == FMul(x, x)

\* (x - mean)^2 for every x of xs
SquaredDeviations(xs, mean) ==
    [i \in 1..Len(xs) |-> Square(FSub(xs[i], mean))]

\* np.mean(a) of the 8-bit samples s: numpy adds them in float64, where
\* their sum is exact, and divides by their number
np_mean(s) == Float(SumSeq(s), Len(s))

\* np.var(a) of the 8-bit samples s of a contiguous array: the mean, the
\* squared deviations from it, their pairwise sum, divided by their number
np_var(s) ==
    FDivInt(PairwiseSum(SquaredDeviations(Floats(s), np_mean(s))), Len(s))

\* One entry of np.std(a, axis=(0, 1)), for the 8-bit samples s of one
\* channel: as np_var, but the squared deviations of a channel are added
\* pixel by pixel; then the square root
np_std_channel(s) ==
    FSqrt(FDivInt(SequentialSum(SquaredDeviations(Floats(s), np_mean(s))), Len(s)))

\* np.mean(a) and np.std(a) of the floats xs of a contiguous array
np_mean_floats(xs) == FDivInt(PairwiseSum(xs), Len(xs))

np_std_floats(xs) ==
    FSqrt(FDivInt(PairwiseSum(SquaredDeviations(xs, np_mean_floats(xs))), Len(xs)))

(***************************************************************************)
(* Image buffers. img_array[y][x][c] is the sample of channel c of the     *)
(* pixel in row y, column x: the numpy array of shape (height, width, 3).  *)
(***************************************************************************)
Height(img_array) == Len(img_array)
Width(img_array) == Len(img_array[1])
Pixels(img_array) == Concat(img_array)
Samples(img_array) == Concat(Pixels(img_array))
\* The samples of channel c of the pixels p
ChannelOf(p, c) == [i \in 1..Len(p) |-> p[i][c]]
Channel(img_array, c) == ChannelOf(Pixels(img_array), c)

\* np.mean(img_array, axis=2): for every pixel the mean of its 3 samples
gray(img_array) ==
    [y \in 1..Height(img_array) |->
        [x \in 1..Width(img_array) |-> np_mean(img_array[y][x])]]

(***************************************************************************)
(* Feature extractors.                                                     *)
(***************************************************************************)
NumpyBool(b) == [type |-> "numpy.bool_", value |-> b]

\* gray = np.mean(img_array, axis=2); float(np.std(gray))
_analyze_texture(img_array) == np_std_floats(Concat(gray(img_array)))

\* np.std(img_array, axis=(0, 1)) is one value per channel; the largest is
\* compared with 50. The comparison of numpy floats yields a numpy.bool_.
_detect_mineralization(img_array) ==
    NumpyBool(\E c \in 1..3 :
        FloatGreater(np_std_channel(Channel(img_array, c)), 50))

\* np.abs(np.diff(g, axis=0)): one row fewer than g
AbsDiff(g) ==
    [y \in 1..(Len(g) - 1) |->
        [x \in 1..Len(g[1]) |-> FAbs(FSub(g[y + 1][x], g[y][x]))]]

_detect_edges(img_array) == AbsDiff(gray(img_array))

\* np.mean(edges) > 0.3. The mean of an empty array is nan, and nan > 0.3
\* is False.
MeanAbove(e, threshold) ==
    Len(e) > 0 /\ FGreater(np_mean_floats(e), threshold)

_identify_bone_structure(img_array) ==
    NumpyBool(MeanAbove(Concat(_detect_edges(img_array)), Float(3, 10)))

_detect_fossil_features(img_array) ==
    [texture_score |-> _analyze_texture(img_array),
     mineralization_detected |-> _detect_mineralization(img_array),
     bone_structure_visible |-> _identify_bone_structure(img_array),
     confidence |-> Float(75, 100)]

(***************************************************************************)
(* Classifiers.                                                            *)
(***************************************************************************)
species_database ==
    [type \in {"Permineralized Bone", "Petrified Wood", "Shell Fragment"} |->
        CASE type = "Permineralized Bone" ->
                <<"Tyrannosaurus Rex", "Triceratops", "Velociraptor">>
          [] type = "Petrified Wood" ->
                <<"Araucarioxylon", "Archaeopteris", "Cordaites">>
          [] type = "Shell Fragment" ->
                <<"Ammonite", "Brachiopod", "Trilobite">>]

_suggest_species(fossil_type) ==
    IF fossil_type \in DOMAIN species_database
    THEN species_database[fossil_type]
    ELSE <<"Unknown">>

\* FossilBracket with the boundaries given to the lower bracket
FossilBracket_inclusive(avg_intensity) ==
    IF ~FloatGreater(avg_intensity, 100) THEN <<"Permineralized Bone", "Mesozoic">>
    ELSE IF ~FloatGreater(avg_intensity, 150) THEN <<"Petrified Wood", "Paleozoic">>
    ELSE <<"Shell Fragment", "Cenozoic">>

\* The (fossil_type, period) bracket of a mean intensity
FossilBracket(avg_intensity) ==
    IF FloatLess(avg_intensity, 100) THEN <<"Permineralized Bone", "Mesozoic">>
    ELSE IF FloatLess(avg_intensity, 150) THEN <<"Petrified Wood", "Paleozoic">>
    ELSE <<"Shell Fragment", "Cenozoic">>

\* The record _classify_fossil returns for the bracket b
Classification(b) ==
    [primary_type |-> b[1],
     geological_period |-> b[2],
     possible_species |-> _suggest_species(b[1]),
     confidence |-> Float(68, 100)]

_classify_fossil(img_array) ==
    Classification(FossilBracket(np_mean(Samples(img_array))))

_estimate_age(img_array) ==
    [estimated_age_million_years |-> "65-230",
     geological_era |-> "Mesozoic",
     confidence |-> "Medium",
     notes |-> "Requires laboratory analysis for precise dating"]

\* QualityBracket with the boundaries given to the higher bracket
QualityBracket_inclusive(color_variance) ==
    IF ~FloatLess(color_variance, 1000) THEN <<"Excellent", Float(92, 10)>>
    ELSE IF ~FloatLess(color_variance, 500) THEN <<"Good", Float(75, 10)>>
    ELSE <<"Fair", Float(58, 10)>>

\* The (quality, score) bracket of a colour variance
QualityBracket(color_variance) ==
    IF FloatGreater(color_variance, 1000) THEN <<"Excellent", Float(92, 10)>>
    ELSE IF FloatGreater(color_variance, 500) THEN <<"Good", Float(75, 10)>>
    ELSE <<"Fair", Float(58, 10)>>

\* The record _assess_preservation returns for the bracket q
Preservation(q) ==
    [quality_rating |-> q[1],
     preservation_score |-> q[2],
     completeness |-> "Partial",
     recommended_preservation |-> "Climate-controlled storage"]

_assess_preservation(img_array) ==
    Preservation(QualityBracket(np_var(Samples(img_array))))

(***************************************************************************)
(* The files the analyzer is run on. A path is [dir, name]; the name is a  *)
(* sequence of characters. The tree does not change: the only file the     *)
(* analyzer writes is the export destination, out_file.                    *)
(***************************************************************************)
Path(d, n) == [dir |-> d, name |-> n]

RGB(rows) == [kind |-> "image", mode |-> "RGB", data |-> rows]
Gray(rows) == [kind |-> "image", mode |-> "L", data |-> rows]
NotAnImage == [kind |-> "data"]
Directory == [kind |-> "dir"]

a_jpeg == <<"a", ".", "j", "p", "e", "g">>
b_PNG == <<"b", ".", "P", "N", "G">>
notes_txt == <<"n", "o", "t", "e", "s", ".", "t", "x", "t">>
c_bmp == <<"c", ".", "b", "m", "p">>
bad_Tiff == <<"b", "a", "d", ".", "T", "i", "f", "f">>
dot_png == <<".", "p", "n", "g">>
sub == <<"s", "u", "b">>
d_jpg == <<"d", ".", "j", "p", "g">>
gone_jpg == <<"g", "o", "n", "e", ".", "j", "p", "g">>

\* The entries of every directory that exists
Listing ==
    [d \in {"fossils", "misc", "misc/sub", "empty"} |->
        CASE d = "fossils" -> {a_jpeg, b_PNG, notes_txt}
          [] d = "misc" -> {c_bmp, bad_Tiff, dot_png, sub}
          [] d = "misc/sub" -> {d_jpg}
          [] d = "empty" -> {}]

\* What is stored at every path that exists and is not a directory of Listing
FileSystem ==
    (Path("fossils", a_jpeg) :> RGB(<< <<<<150, 50, 120>>, <<80, 110, 90>>>> >>))
    @@ (Path("fossils", b_PNG) :> RGB(<< <<<<160, 100, 100>>>>, <<<<100, 100, 100>>>> >>))
    @@ (Path("fossils", notes_txt) :> NotAnImage)
    @@ (Path("misc", c_bmp) :> Gray(<< <<0>>, <<255>> >>))
    @@ (Path("misc", bad_Tiff) :> NotAnImage)
    @@ (Path("misc", dot_png) :> RGB(<< <<<<99, 100, 100>>>> >>))
    @@ (Path("misc", sub) :> Directory)
    @@ (Path("misc/sub", d_jpg) :> RGB(<< <<<<150, 150, 150>>>> >>))

\* The paths analyze_image is called with: every stored path and one that
\* does not exist
ImagePaths == DOMAIN FileSystem \cup {Path("fossils", gone_jpg)}

\* The clock readings the model takes
Timestamps == 1..(MaxHistory + 1)

\* The directory arguments of batch_analyze: the directories, a path that
\* does not exist and the path of a regular file
DirectoryArgs == DOMAIN Listing \cup {"nowhere", "fossils/notes.txt"}
PathExists(directory) == directory \in DOMAIN Listing \cup {"fossils/notes.txt"}

\* Image.open(image_path), img.convert('RGB') and np.array(img): the
\* exception raised, or the (height, width, 3) array
Decode(image_path) ==
    IF image_path \notin DOMAIN FileSystem
    THEN [error |-> "No such file or directory"]
    ELSE LET f == FileSystem[image_path]
         IN  CASE f.kind = "dir" -> [error |-> "Is a directory"]
               [] f.kind = "data" -> [error |-> "cannot identify image file"]
               [] f.kind = "image" /\ f.mode = "RGB" -> [img_array |-> f.data]
               [] f.kind = "image" /\ f.mode = "L" ->
                    [img_array |->
                        [y \in 1..Len(f.data) |->
                            [x \in 1..Len(f.data[y]) |->
                                <<f.data[y][x], f.data[y][x], f.data[y][x]>>]]]

\* datetime.now().isoformat() at the clock reading now
IsoFormat(now) == [isoformat |-> now]

\* The record analyze_image builds for a decoded image
AnalysisRecord(image_path, img_array, now) ==
    [timestamp |-> IsoFormat(now),
     image_path |-> image_path,
     image_dimensions |->
        [width |-> Width(img_array), height |-> Height(img_array)],
     image_properties |->
        [brightness |-> np_mean(Samples(img_array)),
         color_variance |-> np_var(Samples(img_array))],
     fossil_detection |-> _detect_fossil_features(img_array),
     classification |-> _classify_fossil(img_array),
     age_estimation |-> _estimate_age(img_array),
     preservation_quality |-> _assess_preservation(img_array)]

\* The body of the try block of analyze_image up to the append: the
\* exception raised, or the record built
TryDecoded(image_path, d, now) ==
    IF "error" \in DOMAIN d
    THEN [raised |-> d.error]
    ELSE [raised |-> "none",
          result |-> AnalysisRecord(image_path, d.img_array, now)]

TryAnalysis(image_path, now) == TryDecoded(image_path, Decode(image_path), now)

\* TryAnalysis, tabulated
Analyses == [image_path \in ImagePaths, now \in Timestamps |->
                TryAnalysis(image_path, now)]

\* analyze_image whose except clause drops the path from the record
Outcome_no_path(history, image_path, t) ==
    IF t.raised = "none"
    THEN [result |-> t.result, history |-> Append(history, t.result),
          ticks |-> 1]
    ELSE [result |-> [error |-> t.raised], history |-> history, ticks |-> 0]

analyze_image_no_path(history, image_path, now) ==
    Outcome_no_path(history, image_path, Analyses[image_path, now])

\* analyze_image that inserts the record at the front of the history
Outcome_insert(history, image_path, t) ==
    IF t.raised = "none"
    THEN [result |-> t.result, history |-> <<t.result>> \o history,
          ticks |-> 1]
    ELSE [result |-> [error |-> t.raised, image_path |-> image_path],
          history |-> history, ticks |-> 0]

analyze_image_insert(history, image_path, now) ==
    Outcome_insert(history, image_path, Analyses[image_path, now])

\* analyze_image that records the degraded record of a failure as well
Outcome_record_errors(history, image_path, t) ==
    IF t.raised = "none"
    THEN [result |-> t.result, history |-> Append(history, t.result),
          ticks |-> 1]
    ELSE [result |-> [error |-> t.raised, image_path |-> image_path],
          history |-> Append(history, [error |-> t.raised,
                                       image_path |-> image_path]),
          ticks |-> 0]

analyze_image_record_errors(history, image_path, now) ==
    Outcome_record_errors(history, image_path, Analyses[image_path, now])

\* The end of analyze_image, t being what its try block came to: the record
\* is appended and returned, or the except clause returns the degraded
\* record
Outcome(history, image_path, t) ==
    IF t.raised = "none"
    THEN [result |-> t.result, history |-> Append(history, t.result),
          ticks |-> 1]
    ELSE [result |-> [error |-> t.raised, image_path |-> image_path],
          history |-> history, ticks |-> 0]

\* analyze_image on an analyzer whose history is history: the record
\* returned, the history afterwards and the clock readings taken
analyze_image(history, image_path, now) ==
    Outcome(history, image_path, Analyses[image_path, now])

(***************************************************************************)
(* batch_analyze.                                                          *)
(***************************************************************************)
image_extensions ==
    {<<".", "j", "p", "g">>, <<".", "j", "p", "e", "g">>, <<".", "p", "n", "g">>,
     <<".", "b", "m", "p">>, <<".", "t", "i", "f", "f">>}

\* PurePath.suffix: the name from its last dot on, unless that dot is the
\* first or the last character of the name
Suffix(name) ==
    LET dots == {i \in 1..Len(name) : name[i] = "."}
    IN  IF dots = {} THEN <<>>
        ELSE LET i == CHOOSE j \in dots : \A k \in dots : k <= j
             IN  IF 1 < i /\ i < Len(name)
                 THEN SubSeq(name, i, Len(name))
                 ELSE <<>>

\* The letters str.lower() changes in an ASCII string, and what it changes
\* them to
UpperCase ==
    <<"A", "B", "C", "D", "E", "F", "G", "H", "I", "J", "K", "L", "M",
      "N", "O", "P", "Q", "R", "S", "T", "U", "V", "W", "X", "Y", "Z">>

LowerCase ==
    <<"a", "b", "c", "d", "e", "f", "g", "h", "i", "j", "k", "l", "m",
      "n", "o", "p", "q", "r", "s", "t", "u", "v", "w", "x", "y", "z">>

\* str.lower() on one character
LowerChar(ch) ==
    IF \E i \in 1..Len(UpperCase) : UpperCase[i] = ch
    THEN LowerCase[CHOOSE i \in 1..Len(UpperCase) : UpperCase[i] = ch]
    ELSE ch

Lower(str) == [i \in 1..Len(str) |-> LowerChar(str[i])]

\* IsImageFile without the lower-casing
IsImageFile_case_sensitive(name) == Suffix(name) \in image_extensions

\* img_file.suffix.lower() in image_extensions
IsImageFile(name) == Lower(Suffix(name)) \in image_extensions

\* The loop of batch_analyze over the entries in the order iterdir yields
\* them, started with the clock at now
RECURSIVE BatchLoop(_, _, _, _, _)
\* The rest of the loop after analyze_image came to a on the first entry
BatchStep(a, results, directory, entries, now) ==
    BatchLoop(a.history, Append(results, a.result), directory, Tail(entries),
              now + a.ticks)

BatchLoop(history, results, directory, entries, now) ==
    IF entries = <<>>
    THEN [results |-> results, history |-> history]
    ELSE IF IsImageFile(Head(entries))
    THEN BatchStep(analyze_image(history, Path(directory, Head(entries)), now),
                   results, directory, entries, now)
    ELSE BatchLoop(history, results, directory, Tail(entries), now)

\* The list batch_analyze returns after its loop came to b
Returned(b) == [raised |-> "none", history |-> b.history, results |-> b.results]

\* batch_analyze without the check that the path exists: iterdir raises
batch_analyze_unchecked(history, directory, entries, now) ==
    IF directory \notin DOMAIN Listing
    THEN [raised |-> IF PathExists(directory) THEN "NotADirectoryError"
                     ELSE "FileNotFoundError",
          history |-> history, results |-> <<>>]
    ELSE Returned(BatchLoop(history, <<>>, directory, entries, now))

\* batch_analyze(directory): the list returned (or the exception raised) and
\* the history afterwards
batch_analyze(history, directory, entries, now) ==
    IF ~PathExists(directory)
    THEN [raised |-> "none", history |-> history,
          results |-> <<[error |-> <<"Directory not found: ", directory>>]>>]
    ELSE IF directory \notin DOMAIN Listing
    THEN [raised |-> "NotADirectoryError", history |-> history, results |-> <<>>]
    ELSE Returned(BatchLoop(history, <<>>, directory, entries, now))

\* The permutations of a finite set of names
AllOrders(names) ==
    LET n == Cardinality(names)
    IN  {o \in [1..n -> names] : \A i, j \in 1..n : i # j => o[i] # o[j]}

\* The orders in which iterdir can yield the entries of every directory
ListingOrders == [d \in DOMAIN Listing |-> AllOrders(Listing[d])]

Orders(directory) ==
    IF directory \notin DOMAIN Listing THEN {<<>>} ELSE ListingOrders[directory]

\* The number of entries of a directory batch_analyze adds to the history
Decodable ==
    [d \in DOMAIN Listing |->
        Cardinality({n \in Listing[d] :
            IsImageFile(n) /\ "img_array" \in DOMAIN Decode(Path(d, n))})]

Growth(directory) ==
    IF directory \notin DOMAIN Listing THEN 0 ELSE Decodable[directory]

(***************************************************************************)
(* export_results. A file is absent, holds bytes this analyzer did not     *)
(* write, or holds what an export wrote: JSON text (the encoded items and  *)
(* whether the text was written to its end) or CSV lines.                  *)
(***************************************************************************)
Absent == [kind |-> "absent"]
OldBytes == [kind |-> "bytes", bytes |-> "previous content"]
\* open(output_path, 'w'): the file exists and is empty
Truncated == [kind |-> "bytes", bytes |-> ""]

JsonString(str) == [json |-> "string", chars |-> str]
JsonInt(i) == [json |-> "number", digits |-> i]
JsonFloat(f) == [json |-> "number", repr |-> f]
JsonTrue == [json |-> "true"]
JsonFalse == [json |-> "false"]
JsonArray(items) == [json |-> "array", items |-> items]

\* JSONEncoder on a value that is a bool or a numpy.bool_: a bool is
\* written as true or false, anything else goes to JSONEncoder.default,
\* which raises TypeError
EncodeBool(b) ==
    IF b.type = "bool"
    THEN [raised |-> "none", json |-> IF b.value THEN JsonTrue ELSE JsonFalse]
    ELSE [raised |-> "TypeError"]

\* JSONEncoder on one history entry, key by key: the JSON object, or the
\* TypeError raised on the way
EncodeResult(r) ==
    IF "error" \in DOMAIN r
    THEN [raised |-> "none",
          json |-> [error |-> JsonString(r.error),
                    image_path |-> JsonString(r.image_path)]]
    ELSE LET d == r.fossil_detection
             c == r.classification
             a == r.age_estimation
             q == r.preservation_quality
             m == EncodeBool(d.mineralization_detected)
             b == EncodeBool(d.bone_structure_visible)
         IN  IF m.raised # "none" \/ b.raised # "none"
             THEN [raised |-> "TypeError"]
             ELSE [raised |-> "none",
                   json |->
                     [timestamp |-> JsonString(r.timestamp),
                      image_path |-> JsonString(r.image_path),
                      image_dimensions |->
                         [width |-> JsonInt(r.image_dimensions.width),
                          height |-> JsonInt(r.image_dimensions.height)],
                      image_properties |->
                         [brightness |-> JsonFloat(r.image_properties.brightness),
                          color_variance |->
                             JsonFloat(r.image_properties.color_variance)],
                      fossil_detection |->
                         [texture_score |-> JsonFloat(d.texture_score),
                          mineralization_detected |-> m.json,
                          bone_structure_visible |-> b.json,
                          confidence |-> JsonFloat(d.confidence)],
                      classification |->
                         [primary_type |-> JsonString(c.primary_type),
                          geological_period |-> JsonString(c.geological_period),
                          possible_species |->
                             JsonArray([i \in 1..Len(c.possible_species) |->
                                          JsonString(c.possible_species[i])]),
                          confidence |-> JsonFloat(c.confidence)],
                      age_estimation |->
                         [estimated_age_million_years |->
                             JsonString(a.estimated_age_million_years),
                          geological_era |-> JsonString(a.geological_era),
                          confidence |-> JsonString(a.confidence),
                          notes |-> JsonString(a.notes)],
                      preservation_quality |->
                         [quality_rating |-> JsonString(q.quality_rating),
                          preservation_score |-> JsonFloat(q.preservation_score),
                          completeness |-> JsonString(q.completeness),
                          recommended_preservation |->
                             JsonString(q.recommended_preservation)]]]

\* json.dump(history, f, indent=2) into the file opened for writing: the
\* text is written chunk by chunk, so a TypeError leaves the items encoded
\* before it and an unfinished text
RECURSIVE json_dump(_, _)
json_dump(history, written) ==
    IF history = <<>>
    THEN [raised |-> "none",
          file |-> [kind |-> "json", items |-> written, complete |-> TRUE]]
    ELSE LET e == EncodeResult(Head(history))
         IN  IF e.raised # "none"
             THEN [raised |-> e.raised,
                   file |-> [kind |-> "json", items |-> written, complete |-> FALSE]]
             ELSE json_dump(Tail(history), Append(written, e.json))

DecodeBool(j) == [type |-> "bool", value |-> j.json = "true"]

\* json.load on one object written by EncodeResult
DecodeResult(j) ==
    IF "error" \in DOMAIN j
    THEN [error |-> j.error.chars, image_path |-> j.image_path.chars]
    ELSE LET d == j.fossil_detection
             c == j.classification
             a == j.age_estimation
             q == j.preservation_quality
         IN  [timestamp |-> j.timestamp.chars,
              image_path |-> j.image_path.chars,
              image_dimensions |->
                 [width |-> j.image_dimensions.width.digits,
                  height |-> j.image_dimensions.height.digits],
              image_properties |->
                 [brightness |-> j.image_properties.brightness.repr,
                  color_variance |-> j.image_properties.color_variance.repr],
              fossil_detection |->
                 [texture_score |-> d.texture_score.repr,
                  mineralization_detected |-> DecodeBool(d.mineralization_detected),
                  bone_structure_visible |-> DecodeBool(d.bone_structure_visible),
                  confidence |-> d.confidence.repr],
              classification |->
                 [primary_type |-> c.primary_type.chars,
                  geological_period |-> c.geological_period.chars,
                  possible_species |->
                     [i \in 1..Len(c.possible_species.items) |->
                        c.possible_species.items[i].chars],
                  confidence |-> c.confidence.repr],
              age_estimation |->
                 [estimated_age_million_years |->
                     a.estimated_age_million_years.chars,
                  geological_era |-> a.geological_era.chars,
                  confidence |-> a.confidence.chars,
                  notes |-> a.notes.chars],
              preservation_quality |->
                 [quality_rating |-> q.quality_rating.chars,
                  preservation_score |-> q.preservation_score.repr,
                  completeness |-> q.completeness.chars,
                  recommended_preservation |-> q.recommended_preservation.chars]]

\* json.load of a file: the list read, or the exception raised
json_load(file) ==
    IF file.kind = "json" /\ file.complete
    THEN [raised |-> "none",
          value |-> [i \in 1..Len(file.items) |-> DecodeResult(file.items[i])]]
    ELSE IF file.kind = "absent"
    THEN [raised |-> "FileNotFoundError"]
    ELSE [raised |-> "JSONDecodeError"]

fieldnames == <<"timestamp", "image_path", "fossil_type", "age", "quality">>

\* CsvRows with the age column taken from geological_era
RECURSIVE CsvRows_era(_)
CsvRows_era(history) ==
    IF history = <<>> THEN <<>>
    ELSE LET result == Head(history)
         IN  IF "error" \notin DOMAIN result
             THEN <<<<result.timestamp,
                      result.image_path,
                      result.classification.primary_type,
                      result.age_estimation.geological_era,
                      result.preservation_quality.quality_rating>>>>
                  \o CsvRows_era(Tail(history))
             ELSE CsvRows_era(Tail(history))

\* The rows the loop of _export_csv writes for a history
RECURSIVE CsvRows(_)
CsvRows(history) ==
    IF history = <<>> THEN <<>>
    ELSE LET result == Head(history)
         IN  IF "error" \notin DOMAIN result
             THEN <<<<result.timestamp,
                      result.image_path,
                      result.classification.primary_type,
                      result.age_estimation.estimated_age_million_years,
                      result.preservation_quality.quality_rating>>>>
                  \o CsvRows(Tail(history))
             ELSE CsvRows(Tail(history))

\* _export_csv that returns before it opens the file
_export_csv_return_first(history, file) ==
    IF history = <<>>
    THEN file
    ELSE [kind |-> "csv", lines |-> <<fieldnames>> \o CsvRows(history)]

\* _export_csv with the file at output_path holding file: the file is opened
\* for writing, which empties it, before the history is looked at
_export_csv(history, file) ==
    IF history = <<>>
    THEN Truncated
    ELSE [kind |-> "csv", lines |-> <<fieldnames>> \o CsvRows(history)]

\* export_results(output_path, format) with the file at output_path holding
\* file: the file afterwards and the exception raised
export_results(history, file, format) ==
    IF format = "json"
    THEN json_dump(history, <<>>)
    ELSE IF format = "csv"
    THEN [raised |-> "none", file |-> _export_csv(history, file)]
    ELSE [raised |-> "none", file |-> file]

(***************************************************************************)
(* The analyzer: one instance, its operations called in any order with any *)
(* arguments.                                                              *)
(***************************************************************************)
Formats == {"json", "csv", "xml"}

Init ==
    /\ analysis_history = <<>>
    /\ clock = 1
    /\ out_file \in {Absent, OldBytes}
    /\ op = "__init__"
    /\ arg = "None"
    /\ ret = "None"
    /\ raised = "none"

\* A call of analyze_image that comes to a
AnalyzeImageTo(image_path, a) ==
    /\ Len(a.history) <= MaxHistory
    /\ analysis_history' = a.history
    /\ clock' = clock + a.ticks
    /\ op' = "analyze_image"
    /\ arg' = image_path
    /\ ret' = a.result
    /\ raised' = "none"
    /\ UNCHANGED out_file

AnalyzeImage ==
    \E image_path \in ImagePaths :
        AnalyzeImageTo(image_path,
                       analyze_image(analysis_history, image_path, clock))

\* A call of batch_analyze that comes to b
BatchAnalyzeTo(directory, b) ==
    /\ analysis_history' = b.history
    /\ clock' = clock + Len(b.history) - Len(analysis_history)
    /\ op' = "batch_analyze"
    /\ arg' = directory
    /\ ret' = IF b.raised = "none" THEN b.results ELSE "None"
    /\ raised' = b.raised
    /\ UNCHANGED out_file

BatchAnalyze ==
    \E directory \in DirectoryArgs :
        /\ Len(analysis_history) + Growth(directory) <= MaxHistory
        /\ \E entries \in Orders(directory) :
            BatchAnalyzeTo(directory,
                           batch_analyze(analysis_history, directory, entries,
                                         clock))

\* A call of export_results that comes to e
ExportResultsTo(format, e) ==
    /\ out_file' = e.file
    /\ op' = "export_results"
    /\ arg' = format
    /\ ret' = "None"
    /\ raised' = e.raised
    /\ UNCHANGED <<analysis_history, clock>>

ExportResults ==
    \E format \in Formats :
        ExportResultsTo(format,
                        export_results(analysis_history, out_file, format))

Next == AnalyzeImage \/ BatchAnalyze \/ ExportResults

Spec == Init /\ [][Next]_vars

(***************************************************************************)
(* The classifiers applied to image buffers: every buffer of at most       *)
(* MaxPixels pixels drawn from PixelSet, as one row or as one column.      *)
(***************************************************************************)
PixelSet ==
    {<<100, 100, 100>>, <<160, 100, 100>>, <<200, 100, 170>>, <<130, 160, 140>>,
     <<70, 73, 165>>, <<57, 88, 110>>, <<98, 58, 79>>}

PixelRows == UNION {[1..n -> PixelSet] : n \in 1..MaxPixels}

Buffers ==
    {<<row>> : row \in PixelRows}
    \cup {[y \in 1..Len(row) |-> <<row[y]>>] : row \in PixelRows}

InitBuffer ==
    /\ analysis_history = <<>>
    /\ clock = 1
    /\ out_file = Absent
    /\ op = "np.array"
    /\ arg \in Buffers
    /\ ret = "None"
    /\ raised = "none"

ClassifyFossil ==
    /\ op = "np.array"
    /\ op' = "_classify_fossil"
    /\ ret' = _classify_fossil(arg)
    /\ UNCHANGED <<analysis_history, clock, out_file, arg, raised>>

AssessPreservation ==
    /\ op = "np.array"
    /\ op' = "_assess_preservation"
    /\ ret' = _assess_preservation(arg)
    /\ UNCHANGED <<analysis_history, clock, out_file, arg, raised>>

NextBuffer == ClassifyFossil \/ AssessPreservation

SpecBuffer == InitBuffer /\ [][NextBuffer]_vars

(***************************************************************************)
(* Properties.                                                             *)
(***************************************************************************)
IsPrefix(s, t) == Len(s) <= Len(t) /\ SubSeq(t, 1, Len(s)) = s

HasError(r) == "error" \in DOMAIN r

Successes(results) == SelectSeq(results, LAMBDA r : ~HasError(r))

\* The path holds no image that can be decoded
Undecodable(image_path) ==
    image_path \notin DOMAIN FileSystem \/ FileSystem[image_path].kind # "image"

\* C1: analyze_image called with a path that does not exist or that cannot
\* be decoded does not raise; the record it returns has exactly the keys
\* error and image_path, and image_path is the path passed in.
C1_DegradedRecord ==
    (op = "analyze_image" /\ Undecodable(arg)) =>
        /\ raised = "none"
        /\ DOMAIN ret = {"error", "image_path"}
        /\ ret.image_path = arg

\* analyze_image has returned the degraded record of a missing path
C1_Witness ==
    /\ op = "analyze_image"
    /\ arg = Path("fossils", gone_jpg)
    /\ HasError(ret)

\* C2: the history is append-only. Every step leaves the old history a
\* prefix of the new one; analyze_image changes it only by appending the
\* record it returns, batch_analyze only by appending, in order, the records
\* its analyze_image calls returned, and export_results not at all.
C2_AppendOnly ==
    [][/\ IsPrefix(analysis_history, analysis_history')
       /\ op' = "analyze_image" =>
            \/ analysis_history' = analysis_history
            \/ analysis_history' = Append(analysis_history, ret')
       /\ (op' = "batch_analyze" /\ raised' = "none") =>
            analysis_history' = analysis_history \o Successes(ret')
       /\ (op' = "batch_analyze" /\ raised' # "none") =>
            analysis_history' = analysis_history
       /\ op' = "export_results" =>
            analysis_history' = analysis_history]_vars

\* batch_analyze has appended two records to a history that held one
C2_Witness ==
    /\ op = "batch_analyze"
    /\ arg = "fossils"
    /\ Len(analysis_history) = 3
    /\ SubSeq(analysis_history, 2, 3) = ret

\* C3, as stated: export_results(path, "csv") with an empty history leaves
\* a file that exists at path with the content it had.
C3_EmptyCsvLeavesFile ==
    [][(op' = "export_results" /\ arg' = "csv" /\ analysis_history = <<>>
            /\ out_file.kind # "absent")
        => out_file' = out_file]_vars

\* C3, amended: export_results(path, "csv") with an empty history leaves an
\* empty file at path, whatever was there before: the file is opened for
\* writing, and so truncated, and neither header nor row is written.
C3_EmptyCsvTruncates ==
    [][(op' = "export_results" /\ arg' = "csv" /\ analysis_history = <<>>)
        => out_file' = Truncated]_vars

\* the csv export of an empty history has run and the file is empty
C3_Witness ==
    /\ op = "export_results"
    /\ arg = "csv"
    /\ analysis_history = <<>>
    /\ out_file.kind = "bytes"
    /\ out_file.bytes = ""

\* The row of one successful history entry
CsvRowOf(r) ==
    <<r.timestamp, r.image_path, r.classification.primary_type,
      r.age_estimation.estimated_age_million_years,
      r.preservation_quality.quality_rating>>

\* C4: export_results(path, "csv") with a non-empty history writes the
\* header timestamp,image_path,fossil_type,age,quality and then one row for
\* every history entry without an error key, in history order, holding the
\* entry's timestamp, image_path, primary_type, estimated_age_million_years
\* and quality_rating; entries with an error key give no row.
C4_CsvRows ==
    (op = "export_results" /\ arg = "csv" /\ analysis_history # <<>>) =>
        LET ok == Successes(analysis_history)
        IN  /\ raised = "none"
            /\ out_file.kind = "csv"
            /\ Len(out_file.lines) = 1 + Len(ok)
            /\ out_file.lines[1] =
                 <<"timestamp", "image_path", "fossil_type", "age", "quality">>
            /\ \A i \in 1..Len(ok) : out_file.lines[i + 1] = CsvRowOf(ok[i])

\* a history of two entries has been exported as csv
C4_Witness ==
    /\ op = "export_results"
    /\ arg = "csv"
    /\ Len(analysis_history) = 2
    /\ out_file.kind = "csv"
    /\ Len(out_file.lines) = 3

\* C5: export_results(path, "json") completes, and loading the file it
\* wrote gives a list equal to the history: same length, same order, same
\* keys and values, booleans as booleans.
C5_JsonRoundTrip ==
    (op = "export_results" /\ arg = "json") =>
        /\ raised = "none"
        /\ json_load(out_file).raised = "none"
        /\ json_load(out_file).value = analysis_history

\* C6: the classification is decided by the mean b of all samples: b < 100
\* gives Permineralized Bone / Mesozoic, 100 <= b < 150 Petrified Wood /
\* Paleozoic, b >= 150 Shell Fragment / Cenozoic, and possible_species is
\* the three-entry list of the type.
C6_BrightnessBrackets ==
    op = "_classify_fossil" =>
        LET total == SumSeq(Samples(arg))
            n == Len(Samples(arg))
        IN  /\ total < 100 * n =>
                /\ ret.primary_type = "Permineralized Bone"
                /\ ret.geological_period = "Mesozoic"
                /\ ret.possible_species =
                     <<"Tyrannosaurus Rex", "Triceratops", "Velociraptor">>
            /\ (100 * n <= total /\ total < 150 * n) =>
                /\ ret.primary_type = "Petrified Wood"
                /\ ret.geological_period = "Paleozoic"
                /\ ret.possible_species =
                     <<"Araucarioxylon", "Archaeopteris", "Cordaites">>
            /\ 150 * n <= total =>
                /\ ret.primary_type = "Shell Fragment"
                /\ ret.geological_period = "Cenozoic"
                /\ ret.possible_species = <<"Ammonite", "Brachiopod", "Trilobite">>
            /\ ret.possible_species # <<"Unknown">>

\* a two-pixel buffer whose mean is exactly 100 has been classified
C6_Witness ==
    /\ op = "_classify_fossil"
    /\ Len(Samples(arg)) = 6
    /\ SumSeq(Samples(arg)) = 600
    /\ ret.primary_type = "Petrified Wood"

\* n * n times the population variance of the samples
ScaledVariance(samples) ==
    Len(samples) * SumSeq([i \in 1..Len(samples) |-> samples[i] * samples[i]])
        - SumSeq(samples) * SumSeq(samples)

\* The statement of C7 with v the exact population variance of the samples:
\* v > 1000 gives Excellent / 9.2, 500 < v <= 1000 Good / 7.5, v <= 500
\* Fair / 5.8; completeness and recommendation are fixed.
C7_VarianceBrackets ==
    op = "_assess_preservation" =>
        LET n == Len(Samples(arg))
            v == ScaledVariance(Samples(arg))
        IN  /\ v > 1000 * n * n =>
                /\ ret.quality_rating = "Excellent"
                /\ ret.preservation_score = Float(92, 10)
            /\ (500 * n * n < v /\ v <= 1000 * n * n) =>
                /\ ret.quality_rating = "Good"
                /\ ret.preservation_score = Float(75, 10)
            /\ v <= 500 * n * n =>
                /\ ret.quality_rating = "Fair"
                /\ ret.preservation_score = Float(58, 10)
            /\ ret.completeness = "Partial"
            /\ ret.recommended_preservation = "Climate-controlled storage"

\* C7: the preservation record is decided by the float f that np.var
\* computes for the samples: f > 1000 gives Excellent / 9.2, 500 < f <= 1000
\* Good / 7.5, f <= 500 Fair / 5.8; completeness and recommendation are
\* fixed. f is the exact population variance v up to rounding: in every
\* buffer of the model the record is the one of the bracket of v whenever
\* v is not 1000 or 500; a buffer with v = 1000 is rated Good or Excellent,
\* one with v = 500 Fair or Good, and the lower of the two when the mean of
\* the samples is an integer.
C7_FloatVarianceBrackets ==
    op = "_assess_preservation" =>
        LET n == Len(Samples(arg))
            v == ScaledVariance(Samples(arg))
            f == np_var(Samples(arg))
            integer_mean == SumSeq(Samples(arg)) % n = 0
            excellent == /\ ret.quality_rating = "Excellent"
                         /\ ret.preservation_score = Float(92, 10)
            good == /\ ret.quality_rating = "Good"
                    /\ ret.preservation_score = Float(75, 10)
            fair == /\ ret.quality_rating = "Fair"
                    /\ ret.preservation_score = Float(58, 10)
        IN  /\ FloatGreater(f, 1000) => excellent
            /\ (FloatGreater(f, 500) /\ ~FloatGreater(f, 1000)) => good
            /\ ~FloatGreater(f, 500) => fair
            /\ v > 1000 * n * n => excellent
            /\ v = 1000 * n * n => (good \/ excellent) /\ (integer_mean => good)
            /\ (500 * n * n < v /\ v < 1000 * n * n) => good
            /\ v = 500 * n * n => (fair \/ good) /\ (integer_mean => fair)
            /\ v < 500 * n * n => fair
            /\ ret.completeness = "Partial"
            /\ ret.recommended_preservation = "Climate-controlled storage"

\* a buffer whose exact variance is 1000 and whose mean is not an integer
\* has been rated Excellent: np.var returned more than 1000
C7_Witness ==
    /\ op = "_assess_preservation"
    /\ ScaledVariance(Samples(arg)) = 1000 * Len(Samples(arg)) * Len(Samples(arg))
    /\ SumSeq(Samples(arg)) % Len(Samples(arg)) # 0
    /\ FloatGreater(np_var(Samples(arg)), 1000)
    /\ ret.quality_rating = "Excellent"

\* The name ends, whatever the case of its letters, with one of the five
\* extensions, and something stands before the extension
HasImageExtension(name) ==
    \E e \in {<<".", "j", "p", "g">>, <<".", "j", "p", "e", "g">>,
              <<".", "p", "n", "g">>, <<".", "b", "m", "p">>,
              <<".", "t", "i", "f", "f">>} :
        /\ Len(name) > Len(e)
        /\ Lower(SubSeq(name, Len(name) - Len(e) + 1, Len(name))) = e

\* C8: batch_analyze on a directory that exists returns one result for
\* every direct entry whose extension is, case-insensitively, one of .jpg,
\* .jpeg, .png, .bmp, .tiff, and none for any other entry or for the
\* entries of its subdirectories.
C8_OneResultPerImage ==
    (op = "batch_analyze" /\ arg \in DOMAIN Listing) =>
        LET images == {n \in Listing[arg] : HasImageExtension(n)}
        IN  /\ raised = "none"
            /\ Len(ret) = Cardinality(images)
            /\ {ret[i].image_path : i \in 1..Len(ret)} =
                 {Path(arg, n) : n \in images}

\* the directory of two images and one other file has given two results
C8_Witness ==
    /\ op = "batch_analyze"
    /\ arg = "fossils"
    /\ Cardinality(Listing[arg]) = 3
    /\ Len(ret) = 2

\* C9: batch_analyze on a path that does not exist does not raise; it
\* returns a list of one record, which has an error key, analyzes nothing
\* and leaves the history as it was.
C9_MissingDirectory ==
    [][(op' = "batch_analyze" /\ ~PathExists(arg')) =>
            /\ raised' = "none"
            /\ Len(ret') = 1
            /\ HasError(ret'[1])
            /\ clock' = clock
            /\ analysis_history' = analysis_history]_vars

\* batch_analyze has run on a missing directory with a history of one entry
C9_Witness ==
    /\ op = "batch_analyze"
    /\ arg = "nowhere"
    /\ Len(ret) = 1
    /\ Len(analysis_history) = 1

\* C10: a failed analyze_image leaves the history as it was, so that no
\* history entry ever has an error key, and batch_analyze adds to the
\* history as many entries as it returns results without an error key.
C10_NoErrorInHistory ==
    /\ [](\A i \in 1..Len(analysis_history) : ~HasError(analysis_history[i]))
    /\ [][/\ (op' = "analyze_image" /\ HasError(ret')) =>
                analysis_history' = analysis_history
          /\ (op' = "batch_analyze" /\ raised' = "none") =>
                Len(analysis_history') =
                    Len(analysis_history) + Len(Successes(ret'))]_vars

\* batch_analyze has returned more results than it added history entries
C10_Witness ==
    /\ op = "batch_analyze"
    /\ arg = "misc"
    /\ Len(ret) = 2
    /\ Len(Successes(ret)) = 1
    /\ Len(analysis_history) = 1

====
